---- MODULE Spec2Model ----
(***************************************************************************)
(* vi-paths: edit a listing of paths in $EDITOR, reconcile the edited      *)
(* listing against the original, and apply the derived instructions.       *)
(*                                                                         *)
(* A Go string is a sequence of one-character strings, so that TrimSpace,  *)
(* HasPrefix, TrimPrefix and Count are computed character by character.    *)
(***************************************************************************)
EXTENDS Integers, Sequences, FiniteSets

VARIABLES
    pc,            \* position in run: "start", "loop", "exec", "done" ("parsed" under SpecParse)
    before,        \* run's before slice (sorted in place by parseInstructions)
    after,         \* the lines read back from the editor (sorted in place too)
    dryRun,        \* the -dry-run flag
    instructions,  \* the slice parseInstructions returned
    k,             \* 1-based index of the range loop over instructions
    logged,        \* what log.Printf has printed, one entry per call
    fsOps,         \* the filesystem calls on listed paths that succeeded, in order
    err,           \* run's return value: Nil, or the chain of wrapped messages
    before0,       \* history: before as passed to run
    after0,        \* history: after as returned by editPaths
    origin,        \* history: origin[p] is the input line instructions[p] came from
    applied        \* history: one [index, out] per call of Execute, in call order

vars == <<pc, before, after, dryRun, instructions, k, logged, fsOps, err,
          before0, after0, origin, applied>>

\* ------------------------------------------------------------------ bounds

\* Longest listing (number of path arguments, and of lines the editor returns).
MaxLines == 3

\* ----------------------------------------------------------------- strings

Nil == <<>>

Separator == "/"

cmdCopy == <<"c", "o", "p", "y">>

IsSpace(c) == c \in {" ", "\t"}

RECURSIVE TrimLeft(_)
TrimLeft(s) ==
    IF s # <<>> /\ IsSpace(Head(s)) THEN TrimLeft(Tail(s)) ELSE s

RECURSIVE TrimRight(_)
TrimRight(s) ==
    IF s # <<>> /\ IsSpace(s[Len(s)]) THEN TrimRight(SubSeq(s, 1, Len(s) - 1)) ELSE s

TrimSpace(s) == TrimRight(TrimLeft(s))

HasPrefix(s, prefix) ==
    Len(s) >= Len(prefix) /\ SubSeq(s, 1, Len(prefix)) = prefix

TrimPrefix(s, prefix) ==
    IF HasPrefix(s, prefix) THEN SubSeq(s, Len(prefix) + 1, Len(s)) ELSE s

Count(s, c) == Cardinality({i \in DOMAIN s : s[i] = c})

\* ------------------------------------------------------- multiSortStable

depth(path) == Count(path, Separator)

\* Mutants of less: ascending order; a comparator that is not strict.
lessAscending(a, b) == depth(a) < depth(b)

lessNotStrict(a, b) == depth(a) >= depth(b)

less(a, b) == depth(a) > depth(b)

\* m is a multiSortable: [data |-> slice, extra |-> sequence of parallel slices].
Less(m, i, j) == less(m.data[i], m.data[j])

SwapIn(d, i, j) == [d EXCEPT ![i] = d[j], ![j] = d[i]]

\* Mutant of Swap: the parallel slices are left where they are.
SwapDataOnly(m, i, j) == [data |-> SwapIn(m.data, i, j), extra |-> m.extra]

Swap(m, i, j) ==
    [data  |-> SwapIn(m.data, i, j),
     extra |-> [e \in DOMAIN m.extra |-> SwapIn(m.extra[e], i, j)]]

\* sort.Stable on fewer than 20 elements is one insertionSort(data, 0, n):
\*   for i := a + 1; i < b; i++ {
\*       for j := i; j > a && data.Less(j, j-1); j-- { data.Swap(j, j-1) } }
\* (indices here are 1-based).
RECURSIVE sink(_, _)
sink(m, j) ==
    IF j > 1 /\ Less(m, j, j - 1) THEN sink(Swap(m, j, j - 1), j - 1) ELSE m

RECURSIVE insertionSort(_, _)
insertionSort(m, i) ==
    IF i > Len(m.data) THEN m ELSE insertionSort(sink(m, i), i + 1)

multiSortStable(data, extra) ==
    insertionSort([data |-> data, extra |-> extra], 2)

\* ------------------------------------------------------ parseInstructions

\* Mutant of copyTo: the remainder is not trimmed.
copyToUntrimmed(at) == TrimPrefix(at, cmdCopy)

\* to of a copy line: strings.TrimSpace(strings.TrimPrefix(after, cmdCopy)).
copyTo(at) == TrimSpace(TrimPrefix(at, cmdCopy))

\* Mutant of instructionOf: the rename case is tried before the remove case.
instructionOfRenameFirst(b, a) ==
    LET bt == TrimSpace(b)
        at == TrimSpace(a)
    IN  IF HasPrefix(at, cmdCopy \o <<" ">>)
          THEN <<[kind |-> "copy", from |-> bt, to |-> copyTo(at)]>>
        ELSE IF at # bt
          THEN <<[kind |-> "rename", before |-> bt, after |-> at]>>
        ELSE IF at = <<>>
          THEN <<[kind |-> "remove", name |-> bt]>>
        ELSE <<>>

\* The switch of the range loop, on one line pair: the instructions it appends
\* (none or one).
instructionOf(b, a) ==
    LET bt == TrimSpace(b)
        at == TrimSpace(a)
    IN  IF HasPrefix(at, cmdCopy \o <<" ">>)
          THEN <<[kind |-> "copy", from |-> bt, to |-> copyTo(at)]>>
        ELSE IF at = <<>>
          THEN <<[kind |-> "remove", name |-> bt]>>
        ELSE IF at # bt
          THEN <<[kind |-> "rename", before |-> bt, after |-> at]>>
        ELSE <<>>

\* The range loop from index i on. m.extra[1] is after; m.extra[2] is a history
\* slice holding each pair's input line number, swapped along like any extra.
RECURSIVE rangeLoop(_, _)
rangeLoop(m, i) ==
    IF i > Len(m.data) THEN <<>>
    ELSE LET got == instructionOf(m.data[i], m.extra[1][i])
         IN  [p \in DOMAIN got |-> [ins |-> got[p], line |-> m.extra[2][i]]]
             \o rangeLoop(m, i + 1)

parseInstructions(b, a) ==
    LET m   == multiSortStable(b, <<a, [i \in DOMAIN b |-> i]>>)
        out == rangeLoop(m, 1)
    IN  [before       |-> m.data,
         after        |-> m.extra[1],
         instructions |-> [p \in DOMAIN out |-> out[p].ins],
         origin       |-> [p \in DOMAIN out |-> out[p].line]]

\* ------------------------------------------------------------ instructions

\* The path an instruction reads: rename.before, remove.name, copy.from.
src(ins) ==
    CASE ins.kind = "rename" -> ins.before
      [] ins.kind = "remove" -> ins.name
      [] ins.kind = "copy"   -> ins.from

String(ins) ==
    CASE ins.kind = "rename" ->
           <<"r", "e", "n", "a", "m", "e", " ">> \o ins.before
           \o <<"\n", " ", " ", " ", " ", "-", ">", " ">> \o ins.after
      [] ins.kind = "remove" ->
           <<"r", "e", "m", "o", "v", "e", " ">> \o ins.name
      [] ins.kind = "copy" ->
           <<"c", "o", "p", "y", " ">> \o ins.from
           \o <<"\n", " ", " ", "-", ">", " ">> \o ins.to

\* filepath.Dir on paths without "." and ".." elements: everything up to the
\* last separator, cleaned (separators collapsed, no trailing one, "" is ".").
RECURSIVE Elements(_)
Elements(p) ==
    IF p = <<>> THEN <<>>
    ELSE IF Head(p) = Separator THEN Elements(Tail(p))
    ELSE LET n == IF \E i \in DOMAIN p : p[i] = Separator
                    THEN (CHOOSE i \in DOMAIN p :
                            p[i] = Separator /\ \A j \in 1..(i - 1) : p[j] # Separator) - 1
                    ELSE Len(p)
         IN  <<SubSeq(p, 1, n)>> \o Elements(SubSeq(p, n + 1, Len(p)))

RECURSIVE Join(_)
Join(es) ==
    IF es = <<>> THEN <<>>
    ELSE IF Len(es) = 1 THEN es[1]
    ELSE es[1] \o <<Separator>> \o Join(Tail(es))

Clean(p) ==
    LET out == (IF p # <<>> /\ Head(p) = Separator THEN <<Separator>> ELSE <<>>)
               \o Join(Elements(p))
    IN  IF out = <<>> THEN <<".">> ELSE out

Dir(path) ==
    LET seps == {i \in DOMAIN path : path[i] = Separator}
        last == IF seps = {} THEN 0 ELSE CHOOSE i \in seps : \A j \in seps : j <= i
    IN  Clean(SubSeq(path, 1, last))

\* Execute: the system calls of one instruction. Each call may fail (the
\* filesystem is outside the program); `out` names where Execute returns.
\* Outcomes(ins) are the return points, ExecOps the calls on listed paths that
\* had succeeded by then, ExecErr the error returned.
Outcomes(ins) ==
    CASE ins.kind = "rename" -> {"ok", "exe mkdirall", "exe rename"}
      [] ins.kind = "remove" -> {"ok", "exe remove all"}
      [] ins.kind = "copy"   -> {"exe stat", "dir: exe mkdirall", "dir: ok",
                                 "file: exe stat", "file: exe mkdirall",
                                 "file: exe read", "file: exe write", "file: ok"}

ExecOps(ins, out) ==
    CASE ins.kind = "rename" ->
           (IF out = "exe mkdirall" THEN <<>>
            ELSE <<[call |-> "MkdirAll", path |-> Dir(ins.after)]>>)
           \o (IF out = "ok"
                 THEN <<[call |-> "Rename", path |-> ins.before, to |-> ins.after]>>
                 ELSE <<>>)
      [] ins.kind = "remove" ->
           IF out = "ok" THEN <<[call |-> "RemoveAll", path |-> ins.name]>> ELSE <<>>
      [] ins.kind = "copy" ->
           IF out = "dir: ok" THEN <<[call |-> "MkdirAll", path |-> ins.to]>>
           ELSE IF out \in {"file: exe read", "file: exe write"}
             THEN <<[call |-> "MkdirAll", path |-> Dir(ins.to)]>>
           ELSE IF out = "file: ok"
             THEN <<[call |-> "MkdirAll", path |-> Dir(ins.to)],
                    [call |-> "WriteFile", path |-> ins.to, from |-> ins.from]>>
           ELSE <<>>

ExecErr(out) ==
    CASE out \in {"ok", "dir: ok", "file: ok"}           -> Nil
      [] out \in {"exe mkdirall", "dir: exe mkdirall",
                  "file: exe mkdirall"}                  -> <<"exe mkdirall">>
      [] out = "exe rename"                              -> <<"exe rename">>
      [] out = "exe remove all"                          -> <<"exe remove all">>
      [] out \in {"exe stat", "file: exe stat"}          -> <<"exe stat">>
      [] out = "file: exe read"                          -> <<"exe read">>
      [] out = "file: exe write"                         -> <<"exe write">>

\* ------------------------------------------------------------------ inputs

\* Path arguments: plain, nested, padded with whitespace, and a file whose
\* name is "copy a".
Paths ==
    {<<"a">>, <<"a", "/", "b">>,
     <<" ", "a", "/", "b", "/", "c">>,
     <<"c", "o", "p", "y", " ", "a">>}

\* What the user may leave on a line instead of the path: nothing, blanks, a
\* padded copy directive, a new name with a trailing blank.
Edits ==
    {<<>>, <<" ">>,
     <<" ", "c", "o", "p", "y", " ", " ", "a", " ">>,
     <<"z", " ">>}

\* The sets the whole run is explored on: a directory, the same directory
\* written with a trailing separator (as shell completion and */ globs give),
\* and an entry inside it.
RunPaths == {<<"a">>, <<"a", "/">>, <<"a", "/", "b">>}

RunEdits == {<<>>, <<"c", "o", "p", "y", " ", "z">>, <<"z", " ">>}

Listings(S) == UNION {[1..n -> S] : n \in 1..MaxLines}

\* Every listing the editor can hand back with as many lines as b: each line
\* left alone or replaced by one of E.
IsEdited(a, b, E) == \A i \in DOMAIN b : a[i] \in E \cup {b[i]}

Edited(b, E) == {a \in [DOMAIN b -> E \cup {b[i] : i \in DOMAIN b}] : IsEdited(a, b, E)}

\* Listings with a line count other than b's: trailing lines deleted, or a line added.
Miscounted(b, E) ==
    {SubSeq(a, 1, n) : a \in Edited(b, E), n \in 0..(Len(b) - 1)}
    \cup {Append(a, e) : a \in Edited(b, E), e \in E}

\* -------------------------------------------------------------------- run

InitWith(P, D) ==
    /\ pc = "start"
    /\ before \in Listings(P)
    /\ before0 = before
    /\ dryRun \in D
    /\ after = <<>>
    /\ after0 = <<>>
    /\ instructions = <<>>
    /\ origin = <<>>
    /\ k = 0
    /\ logged = <<>>
    /\ fsOps = <<>>
    /\ applied = <<>>
    /\ err = Nil

Init == InitWith(RunPaths, BOOLEAN)

Return(e) ==
    /\ pc' = "done"
    /\ err' = e

\* os.CreateTemp fails.
CreateTempFails ==
    /\ pc = "start"
    /\ Return(<<"creating temp file">>)
    /\ UNCHANGED <<before, after, dryRun, instructions, k, logged, fsOps,
                   before0, after0, origin, applied>>

\* editPaths returns an error: the editor exited with a failure.
EditorFails ==
    /\ pc = "start"
    /\ Return(<<"editing paths">>)
    /\ UNCHANGED <<before, after, dryRun, instructions, k, logged, fsOps,
                   before0, after0, origin, applied>>

\* Mutant of lineCountMismatch: only missing lines are noticed.
lineCountTooFew(b, a) == Len(a) < Len(b)

lineCountMismatch(b, a) == Len(a) # Len(b)

\* run from editPaths' return to the head of the range loop: the line count
\* check, then parseInstructions, which sorts before and after in place.
Reconcile(a) ==
    /\ after0' = a
    /\ IF lineCountMismatch(before, a)
         THEN /\ Return(<<"line count mismatch">>)
              /\ after' = a
              /\ UNCHANGED <<before, instructions, origin, k>>
         ELSE LET r == parseInstructions(before, a)
              IN  /\ before' = r.before
                  /\ after' = r.after
                  /\ instructions' = r.instructions
                  /\ origin' = r.origin
                  /\ k' = 1
                  /\ pc' = "loop"
                  /\ UNCHANGED err
    /\ UNCHANGED <<dryRun, logged, fsOps, before0, applied>>

Edit ==
    /\ pc = "start"
    /\ \E a \in Edited(before, RunEdits) \cup Miscounted(before, RunEdits) :
           Reconcile(a)

\* Mutant of skipExecute: the flag is ignored.
skipExecuteNever(dry) == FALSE

skipExecute(dry) == dry

\* One iteration up to Execute: log the instruction; under -dry-run, continue.
Log ==
    /\ pc = "loop"
    /\ k <= Len(instructions)
    /\ logged' = Append(logged, String(instructions[k]))
    /\ IF skipExecute(dryRun)
         THEN k' = k + 1 /\ pc' = "loop"
         ELSE k' = k /\ pc' = "exec"
    /\ UNCHANGED <<before, after, dryRun, instructions, fsOps, err,
                   before0, after0, origin, applied>>

\* Mutant of returnsOn: Execute's error is dropped and the loop goes on.
returnsOnNothing(e) == FALSE

returnsOn(e) == e # Nil

\* instruction.Execute() and the check of its error.
Execute ==
    /\ pc = "exec"
    /\ \E out \in Outcomes(instructions[k]) :
         /\ fsOps' = fsOps \o ExecOps(instructions[k], out)
         /\ applied' = Append(applied, [index |-> k, out |-> out])
         /\ IF returnsOn(ExecErr(out))
              THEN Return(<<"executing">> \o ExecErr(out)) /\ k' = k
              ELSE pc' = "loop" /\ k' = k + 1 /\ UNCHANGED err
    /\ UNCHANGED <<before, after, dryRun, instructions, logged,
                   before0, after0, origin>>

\* The range loop is over: return nil.
Finish ==
    /\ pc = "loop"
    /\ k > Len(instructions)
    /\ Return(Nil)
    /\ UNCHANGED <<before, after, dryRun, instructions, k, logged, fsOps,
                   before0, after0, origin, applied>>

Next == CreateTempFails \/ EditorFails \/ Edit \/ Log \/ Execute \/ Finish

Spec == Init /\ [][Next]_vars

\* ------------------------------------------- parseInstructions on its own

InitParse == InitWith(Paths, {FALSE})

\* parseInstructions applied to before and an edited listing of the same length.
Parse ==
    /\ pc = "start"
    /\ \E a \in [DOMAIN before -> Edits \cup {before[i] : i \in DOMAIN before}] :
         /\ IsEdited(a, before, Edits)
         /\ LET r == parseInstructions(before, a)
            IN  /\ after0' = a
                /\ before' = r.before
                /\ after' = r.after
                /\ instructions' = r.instructions
                /\ origin' = r.origin
    /\ pc' = "parsed"
    /\ UNCHANGED <<dryRun, k, logged, fsOps, err, before0, applied>>

NextParse == Parse

SpecParse == InitParse /\ [][NextParse]_vars

\* ------------------------------------------------------------ properties

Parsed == pc = "parsed"

\* The output positions whose instruction came from input line i.
PositionsOf(i) == {p \in DOMAIN instructions : origin[p] = i}

Blank(line) == \A q \in DOMAIN line : IsSpace(line[q])

IsCopyLine(line) == HasPrefix(TrimSpace(line), cmdCopy \o <<" ">>)

\* to is what is left of line once the surrounding whitespace, the copy token
\* and the whitespace after it are taken away.
IsRemainder(to, line) ==
    LET t == TrimSpace(line)
    IN  /\ to # <<>>
        /\ ~IsSpace(to[1])
        /\ \E j \in (Len(cmdCopy) + 1)..(Len(t) - 1) :
             /\ \A q \in (Len(cmdCopy) + 1)..j : IsSpace(t[q])
             /\ to = SubSeq(t, j + 1, Len(t))

\* C1: the instructions parseInstructions returns are in descending order of
\* the depth (number of separators) of the path they read: whenever X precedes
\* Y in the output, depth(X.before) >= depth(Y.before).
C1_DepthDescending ==
    Parsed =>
      \A x, y \in DOMAIN instructions :
        x < y => depth(src(instructions[x])) >= depth(src(instructions[y]))

\* C1 witness: a deeper path listed after a shallower one, both yielding an
\* instruction, so the sort had to move it forward.
C1_Witness ==
    /\ Parsed
    /\ \E x, y \in DOMAIN instructions :
         /\ x < y
         /\ origin[x] > origin[y]
         /\ depth(src(instructions[x])) > depth(src(instructions[y]))

\* C2: when no line was changed (after[i] = before[i] for every i),
\* parseInstructions returns no instruction.
C2_UnchangedYieldsNothing ==
    (Parsed /\ after0 = before0) => instructions = <<>>

\* C3 as claimed: a line left empty or blank yields exactly one instruction,
\* a remove whose name is before[i] itself.
C3_BlankRemovesLiteral ==
    Parsed =>
      \A i \in DOMAIN after0 :
        Blank(after0[i]) =>
          \E p \in PositionsOf(i) :
            /\ PositionsOf(i) = {p}
            /\ instructions[p] = [kind |-> "remove", name |-> before0[i]]

\* C3 as amended: a line left empty or blank yields exactly one instruction
\* for its index, a remove whose name is before[i] with its leading and
\* trailing whitespace trimmed; never a rename or a copy.
C3_BlankRemoves ==
    Parsed =>
      \A i \in DOMAIN after0 :
        Blank(after0[i]) =>
          \E p \in PositionsOf(i) :
            /\ PositionsOf(i) = {p}
            /\ instructions[p] = [kind |-> "remove", name |-> TrimSpace(before0[i])]

\* C3 witness: a whitespace-only line against a padded path, sorted away from
\* its input position.
C3_Witness ==
    /\ Parsed
    /\ \E i \in DOMAIN after0 :
         /\ Blank(after0[i]) /\ after0[i] # <<>>
         /\ TrimSpace(before0[i]) # before0[i]
         /\ before[i] # before0[i]
         /\ PositionsOf(i) # {}

\* C4 as claimed: a line whose trimmed text starts with "copy " yields a copy
\* with from = before[i] itself and to = the remainder.
C4_CopyLiteral ==
    Parsed =>
      \A i \in DOMAIN after0 :
        IsCopyLine(after0[i]) =>
          \E p \in PositionsOf(i) :
            /\ PositionsOf(i) = {p}
            /\ instructions[p].kind = "copy"
            /\ instructions[p].from = before0[i]
            /\ IsRemainder(instructions[p].to, after0[i])

\* C4 as amended: a line whose trimmed text starts with "copy " yields exactly
\* one instruction, a copy with from = before[i] trimmed of surrounding
\* whitespace and to = the rest of the line after the copy token, trimmed;
\* also when that rest equals before[i].
C4_Copy ==
    Parsed =>
      \A i \in DOMAIN after0 :
        IsCopyLine(after0[i]) =>
          \E p \in PositionsOf(i) :
            /\ PositionsOf(i) = {p}
            /\ instructions[p].kind = "copy"
            /\ instructions[p].from = TrimSpace(before0[i])
            /\ IsRemainder(instructions[p].to, after0[i])

\* C4 witness: a copy directive whose remainder is the line's own path.
C4_Witness ==
    /\ Parsed
    /\ \E i \in DOMAIN after0 :
         /\ IsCopyLine(after0[i])
         /\ after0[i] # before0[i]
         /\ \E p \in PositionsOf(i) : instructions[p].to = before0[i]

\* C5: two input lines i < j whose paths have equal depth and that both yield
\* an instruction keep their order in the output.
C5_Stable ==
    Parsed =>
      \A i, j \in DOMAIN before0 :
        (i < j /\ depth(before0[i]) = depth(before0[j])) =>
          \A p \in PositionsOf(i), q \in PositionsOf(j) : p < q

\* C5 witness: two different paths of equal depth, both yielding an
\* instruction, listed before a deeper path that the sort moves past them.
C5_Witness ==
    /\ Parsed
    /\ \E i, j, d \in DOMAIN before0 :
         /\ i < j /\ j < d
         /\ before0[i] # before0[j]
         /\ depth(before0[i]) = depth(before0[j])
         /\ depth(before0[d]) > depth(before0[i])
         /\ PositionsOf(i) # {} /\ PositionsOf(j) # {} /\ PositionsOf(d) # {}

Pairs(b, a) == [i \in DOMAIN b |-> <<b[i], a[i]>>]

Occurrences(s, e) == Cardinality({i \in DOMAIN s : s[i] = e})

\* C9: after the joint sort the (before[i], after[i]) pairs are a permutation
\* of the input pairs: each after line is still beside the path it was edited
\* from.
C9_PairsPermuted ==
    Parsed =>
      /\ Len(before) = Len(before0)
      /\ Len(after) = Len(after0)
      /\ \A i \in DOMAIN before0 :
           Occurrences(Pairs(before, after), <<before0[i], after0[i]>>)
             = Occurrences(Pairs(before0, after0), <<before0[i], after0[i]>>)

\* C9 witness: the sort moved a line, and the after line moved with it.
C9_Witness ==
    /\ Parsed
    /\ \E i \in DOMAIN before0 :
         /\ before[i] # before0[i]
         /\ after[i] # after0[i]
         /\ after0[i] # before0[i]

\* ---- the run

EditorReturned ==
    pc # "start" /\ err \notin {<<"creating temp file">>, <<"editing paths">>}

RECURSIVE OpsOf(_)
OpsOf(calls) ==
    IF calls = <<>> THEN <<>>
    ELSE ExecOps(instructions[Head(calls).index], Head(calls).out) \o OpsOf(Tail(calls))

Failed(call) == ExecErr(call.out) # Nil

\* C6: when the editor hands back a listing of another length, run returns
\* the line count error, and no instruction is derived, logged or applied.
C6_MismatchStops ==
    (EditorReturned /\ Len(after0) # Len(before0)) =>
      /\ pc = "done"
      /\ err = <<"line count mismatch">>
      /\ instructions = <<>>
      /\ logged = <<>>
      /\ applied = <<>>
      /\ fsOps = <<>>

\* C6 witness: three lines before, two after.
C6_Witness ==
    /\ EditorReturned
    /\ Len(before0) = 3
    /\ Len(after0) = 2

\* C7: without -dry-run the instructions are applied in list order, each at
\* most once; the first failing Execute ends the run with its error, nothing
\* after it is logged or applied, and what was applied before it stays.
C7_StopsAtFirstFailure ==
    ~dryRun =>
      /\ Len(applied) <= Len(instructions)
      /\ \A i \in DOMAIN applied : applied[i].index = i
      /\ \A i \in DOMAIN applied : i < Len(applied) => ~Failed(applied[i])
      /\ Len(logged) \in {Len(applied), Len(applied) + 1}
      /\ \A i \in DOMAIN logged : logged[i] = String(instructions[i])
      /\ fsOps = OpsOf(applied)
      /\ (applied # <<>> /\ Failed(applied[Len(applied)])) =>
           /\ pc = "done"
           /\ err = <<"executing">> \o ExecErr(applied[Len(applied)].out)
           /\ Len(logged) = Len(applied)

\* C7 witness: the first instruction applied with effect, the second failed,
\* a third one never attempted.
C7_Witness ==
    /\ ~dryRun
    /\ pc = "done"
    /\ Len(instructions) >= 3
    /\ Len(applied) = 2
    /\ Failed(applied[2])
    /\ ExecOps(instructions[1], applied[1].out) # <<>>
    /\ fsOps # <<>>

\* C8: under -dry-run Execute is never called and no filesystem call on a
\* listed path is made; every instruction is logged in order and run returns
\* nil.
C8_DryRunTouchesNothing ==
    dryRun =>
      /\ applied = <<>>
      /\ fsOps = <<>>
      /\ pc = "loop" => logged = [i \in 1..(k - 1) |-> String(instructions[i])]
      /\ (pc = "done" /\ EditorReturned /\ Len(after0) = Len(before0)) =>
           /\ err = Nil
           /\ logged = [i \in DOMAIN instructions |-> String(instructions[i])]

\* C8 witness: a dry run that logged several instructions and returned.
C8_Witness ==
    /\ dryRun
    /\ pc = "done"
    /\ err = Nil
    /\ Len(logged) >= 2

\* p names a directory that q lies inside: p's elements are a proper prefix
\* of q's (a trailing or doubled separator names the same directory).
IsProperAncestor(p, q) ==
    LET ep == Elements(p)
        eq == Elements(q)
    IN  /\ ep # <<>>
        /\ (Head(p) = Separator) = (Head(q) = Separator)
        /\ Len(ep) < Len(eq)
        /\ SubSeq(eq, 1, Len(ep)) = ep

\* C10: of two instructions where one reads a proper ancestor directory of
\* the path the other reads, the descendant's is applied first: an instruction
\* on the ancestor is never applied while the descendant's is still pending.
C10_DescendantsFirst ==
    \A x \in DOMAIN applied : \A y \in DOMAIN instructions :
      IsProperAncestor(src(instructions[x]), src(instructions[y]))
        => y <= Len(applied)

====
